---- MODULE Spec2Model ----
(***************************************************************************)
(* Model of edx_django_utils/admin/manage_users_by.py: update_user, the    *)
(* idempotent create / update / remove of one Django user, run inside one  *)
(* database transaction (@transaction.atomic).                             *)
(*                                                                         *)
(* Strings are sequences of tokens.  An e-mail address is a sequence of    *)
(* characters, so that str.lower() is computed character by character.     *)
(* An encoded password is the sequence of the parts Django's hashers       *)
(* write, "$" included: <<algorithm, "$", salt, "$", digest>>, the unusable*)
(* password is <<"!", random>>, and "" is <<>>.  The digest of a raw       *)
(* password is written as the raw password's name.                         *)
(* None is the empty sequence <<>> of an optional <<value>>.               *)
(***************************************************************************)
EXTENDS Naturals, Sequences, FiniteSets, TLC

\* How many different values a random draw (a salt of make_password, the
\* random suffix of set_unusable_password) can take in the model.
NumRandom == 2

RandomNames == <<"r1", "r2", "r3", "r4">>

Randoms == {RandomNames[i] : i \in 1..NumRandom}

Usernames == {"alice"}

Emails == {<<"a", "@", "x">>, <<"A", "@", "x">>, <<"b", "@", "x">>}

\* The group directory (django.contrib.auth Group rows) and the names a call may give.
ExistingGroups == {"A", "B", "C"}

None == <<>>

Some(v) == <<v>>

GroupArgs == {None, Some({}), Some({"A", "B"}), Some({"B", "C", "Z"})}

PASSWORD_HASHERS == {"pbkdf2_sha256"}

DUMMY_PASSWORD == "dummypassword"

GoodHash == <<"pbkdf2_sha256", "$", "r1", "$", "secret">>

HashArgs ==
    { None,
      Some(<<>>),
      Some(<<"!", "r1">>),
      Some(<<"bogus", "$", "r1", "$", "secret">>),
      Some(GoodHash) }

Calls ==
    [ username : Usernames,
      email : Emails,
      is_remove : BOOLEAN,
      is_staff : BOOLEAN,
      is_superuser : BOOLEAN,
      groups : GroupArgs,
      unusable_password : BOOLEAN,
      initial_password_hash : HashArgs ]

NoCall == [username |-> "-"]

VARIABLES
    UserProfile,    \* TRUE: the import of UserProfile succeeded; FALSE: it is None
    accounts,       \* the user table: username -> row (with its groups and profile)
    groupDir,       \* the names of the Group rows
    pc,             \* "idle" | "called" | "returned"
    call,           \* the arguments of the call of update_user in progress
    pre,            \* the user table when that call was entered
    result,         \* how the call ended: "ok", "logged_error", or the CommandError raised
    writes,         \* the attributes the call assigned on the user object
    createdEmail,   \* username -> the e-mail given by the call that created the row
    firstResult     \* the result of the previous call when this one repeats it, else None

vars == <<UserProfile, accounts, groupDir, pc, call, pre, result, writes,
          createdEmail, firstResult>>

----------------------------------------------------------------------------
(* str.lower() *)
LowerChar(c) ==
    CASE c = "A" -> "a"
      [] c = "B" -> "b"
      [] c = "X" -> "x"
      [] OTHER -> c

Lower(s) == [i \in DOMAIN s |-> LowerChar(s[i])]

(* bool(x) of an optional string: None and "" are falsy *)
Truthy(opt) == Len(opt) = 1 /\ Len(opt[1]) > 0

(* django.contrib.auth.hashers *)
is_password_usable(encoded) == ~(Len(encoded) > 0 /\ encoded[1] = "!")

RECURSIVE BeforeDollar(_)
BeforeDollar(encoded) ==
    IF Len(encoded) = 0 \/ Head(encoded) = "$"
    THEN <<>>
    ELSE <<Head(encoded)>> \o BeforeDollar(Tail(encoded))

\* identify_hasher(encoded) finds a hasher: encoded.split("$", 1)[0] names one
\* of the configured hashers (the legacy unsalted formats, told by their
\* length, are not configured here); otherwise it raises ValueError.
identify_hasher(encoded) ==
    LET algorithm == BeforeDollar(encoded)
    IN  Len(algorithm) = 1 /\ algorithm[1] \in PASSWORD_HASHERS

is_valid_django_hash(encoded) == identify_hasher(encoded)

make_password(raw, salt) == <<"pbkdf2_sha256", "$", salt, "$", raw>>

\* the raw password an encoded password accepts (check_password)
RawOf(encoded) == IF Len(encoded) = 5 THEN encoded[5] ELSE ""

----------------------------------------------------------------------------
(* The user object in flight: the row's fields and the attributes assigned. *)
setattr(t, attribute, value) ==
    [obj |-> [t.obj EXCEPT ![attribute] = value], writes |-> t.writes \cup {attribute}]

_maybe_update_Always(t, attribute, new_value) == setattr(t, attribute, new_value)

_maybe_update(t, attribute, new_value) ==
    IF new_value # t.obj[attribute]
    THEN setattr(t, attribute, new_value)
    ELSE t

\* TRUE: the check passes; FALSE: it raises CommandError
_check_email_match_CaseSensitive(user, email) == user.email = email

_check_email_match(user, email) == Lower(user.email) = Lower(email)

NewUser(email) ==
    [ email |-> email, is_staff |-> FALSE, is_superuser |-> FALSE,
      password |-> <<>>, groups |-> {}, profile |-> FALSE ]

Without(db, username) == [u \in DOMAIN db \ {username} |-> db[u]]

get_or_create_UpdatesEmail(db, username, email) ==
    IF username \in DOMAIN db
    THEN [db |-> [db EXCEPT ![username].email = email],
          user |-> [db[username] EXCEPT !.email = email], created |-> FALSE]
    ELSE [db |-> db @@ (username :> NewUser(email)),
          user |-> NewUser(email), created |-> TRUE]

get_or_create(db, username, email) ==
    IF username \in DOMAIN db
    THEN [db |-> db, user |-> db[username], created |-> FALSE]
    ELSE [db |-> db @@ (username :> NewUser(email)),
          user |-> NewUser(email), created |-> TRUE]

save(db, username, user) == [db EXCEPT ![username] = user]

Outcome(db, res, w) == [db |-> db, result |-> res, writes |-> w]

_handle_remove_NoEmailCheck(db, username, email) ==
    IF username \notin DOMAIN db
    THEN Outcome(db, "ok", {})
    ELSE Outcome(Without(db, username), "ok", {})

_handle_remove(db, username, email) ==
    IF username \notin DOMAIN db
    THEN Outcome(db, "ok", {})
    ELSE IF ~_check_email_match(db[username], email)
    THEN Outcome(db, "CommandError_email", {})
    ELSE Outcome(Without(db, username), "ok", {})

\* lines 93-102: the password of a row just created.  set_password draws a
\* random salt: the results are the user objects it can leave.
initial_password(t, hash) ==
    IF Truthy(hash)
    THEN {setattr(t, "password", hash[1])}
    ELSE {setattr(t, "password", make_password(DUMMY_PASSWORD, salt)) : salt \in Randoms}

has_usable_password(user) == is_password_usable(user.password)

\* lines 112-113.  set_unusable_password draws a random suffix.
mark_unusable_NoGuard(t, unusable_password) ==
    IF unusable_password
    THEN {setattr(t, "password", <<"!", rnd>>) : rnd \in Randoms}
    ELSE {t}

mark_unusable(t, unusable_password) ==
    IF unusable_password /\ has_usable_password(t.obj)
    THEN {setattr(t, "password", <<"!", rnd>>) : rnd \in Randoms}
    ELSE {t}

\* lines 116-119
ensure_profile_Skipped(t) == t

ensure_profile(t) ==
    IF t.obj.profile THEN t ELSE [t EXCEPT !.obj.profile = TRUE]

\* lines 122-128: Group.objects.get(name=group_name), DoesNotExist ignored
resolve_groups(dir, groups) ==
    LET names == IF groups = None THEN {} ELSE groups[1]
    IN  {g \in dir : g \in names}

\* line 133: user.groups.set(new_groups)
groups_set_Merges(t, new_groups) == [t EXCEPT !.obj.groups = @ \cup new_groups]

groups_set(t, new_groups) == [t EXCEPT !.obj.groups = new_groups]

\* lines 86-134: the body of update_user after the remove branch; the outcomes
\* it can have, one for each value the random draws can take
reconcile(db, dir, c) ==
    LET goc == get_or_create(db, c.username, c.email)
        hash == c.initial_password_hash
        t0 == [obj |-> goc.user, writes |-> {}]
        finish(t4) ==
            LET t5 == ensure_profile(t4)
                new_groups == resolve_groups(dir, c.groups)
                t6 == groups_set(t5, new_groups)
            IN  Outcome(save(goc.db, c.username, t6.obj), "ok", t6.writes)
        flags(t1) ==
            LET t2 == _maybe_update(t1, "is_staff", c.is_staff)
                t3 == _maybe_update(t2, "is_superuser", c.is_superuser)
            IN  mark_unusable(t3, c.unusable_password)
    IN  IF goc.created /\ Truthy(hash)
           /\ ~(is_password_usable(hash[1]) /\ is_valid_django_hash(hash[1]))
        THEN {Outcome(goc.db, "CommandError_hash", {})}
        ELSE IF ~goc.created /\ ~_check_email_match(goc.user, c.email)
        THEN {Outcome(goc.db, "CommandError_email", {})}
        ELSE
            LET created == IF goc.created THEN initial_password(t0, hash) ELSE {t0}
            IN  {finish(t4) : t4 \in UNION {flags(t1) : t1 \in created}}

Raised(res) == res \in {"CommandError_email", "CommandError_hash"}

\* line 73: @transaction.atomic rolls the database back when the body raises
transaction_atomic_NoRollback(before, out) == out

transaction_atomic(before, out) ==
    IF Raised(out.result) THEN [out EXCEPT !.db = before] ELSE out

\* lines 74-135
update_user_body_RemoveFirst(up, db, dir, c) ==
    IF c.is_remove
    THEN {_handle_remove(db, c.username, c.email)}
    ELSE IF ~up
    THEN {Outcome(db, "logged_error", {})}
    ELSE reconcile(db, dir, c)

update_user_body(up, db, dir, c) ==
    IF ~up
    THEN {Outcome(db, "logged_error", {})}
    ELSE IF c.is_remove
    THEN {_handle_remove(db, c.username, c.email)}
    ELSE reconcile(db, dir, c)

----------------------------------------------------------------------------
\* A user row made outside this command (the Django admin): no profile yet.
AdminMadeUser ==
    [ email |-> <<"a", "@", "x">>, is_staff |-> TRUE, is_superuser |-> FALSE,
      password |-> GoodHash, groups |-> {"A", "B"}, profile |-> FALSE ]

\* The user table before the first call: empty, or holding one such row, under the
\* username the calls name or under another one.
InitialDirectories ==
    {<<>>} \cup {[u \in {name} |-> AdminMadeUser] : name \in {"alice", "bob"}}

Init ==
    /\ UserProfile \in BOOLEAN
    /\ accounts \in InitialDirectories
    /\ groupDir = ExistingGroups
    /\ pc = "idle"
    /\ call = NoCall
    /\ pre = accounts
    /\ result = "none"
    /\ writes = {}
    /\ createdEmail = <<>>
    /\ firstResult = None

\* the caller enters update_user with the arguments of the next record
CallUpdateUser ==
    /\ pc = "idle"
    /\ \E c \in Calls : call' = c
    /\ pc' = "called"
    /\ pre' = accounts
    /\ firstResult' = None
    /\ UNCHANGED <<UserProfile, accounts, groupDir, result, writes, createdEmail>>

\* the caller enters update_user again with the arguments of the call that just returned
CallAgain ==
    /\ pc = "returned"
    /\ firstResult = None
    /\ pc' = "called"
    /\ pre' = accounts
    /\ firstResult' = Some(result)
    /\ UNCHANGED <<UserProfile, accounts, groupDir, call, result, writes, createdEmail>>

update_user ==
    /\ pc = "called"
    /\ \E body \in update_user_body(UserProfile, accounts, groupDir, call) :
        LET out == transaction_atomic(accounts, body)
            u == call.username
        IN  /\ accounts' = out.db
            /\ result' = out.result
            /\ writes' = out.writes
            /\ createdEmail' =
                   IF u \notin DOMAIN out.db THEN Without(createdEmail, u)
                   ELSE IF u \notin DOMAIN accounts THEN Without(createdEmail, u) @@ (u :> call.email)
                   ELSE createdEmail
    /\ pc' = "returned"
    /\ UNCHANGED <<UserProfile, groupDir, call, pre, firstResult>>

\* the call is over: the caller drops its arguments
Return ==
    /\ pc = "returned"
    /\ pc' = "idle"
    /\ call' = NoCall
    /\ pre' = accounts
    /\ result' = "none"
    /\ writes' = {}
    /\ firstResult' = None
    /\ UNCHANGED <<UserProfile, accounts, groupDir, createdEmail>>

Next == CallUpdateUser \/ CallAgain \/ update_user \/ Return

Spec == Init /\ [][Next]_vars

----------------------------------------------------------------------------
(* The claims.  In a state with pc = "returned", call, pre, result and      *)
(* writes describe the call of update_user that has just ended.             *)
Returned == pc = "returned"

NonRemove == Returned /\ ~call.is_remove

Target == call.username

SameEmailIgnoringCase(a, b) == Lower(a) = Lower(b)

OthersUntouched ==
    \A v \in (DOMAIN pre \cup DOMAIN accounts) \ {Target} :
        v \in DOMAIN pre /\ v \in DOMAIN accounts /\ accounts[v] = pre[v]

\* a non-remove call that creates: the username is absent and a hash is supplied
SuppliesHashOnCreation ==
    NonRemove /\ Target \notin DOMAIN pre /\ call.initial_password_hash # None

\* C1 as stated: on first creation an initial password hash that is the empty
\* string or malformed makes the call fail with the invalid-hash error, and no
\* account with that username exists afterwards.
C1_AsStated ==
    (SuppliesHashOnCreation /\ ~is_valid_django_hash(call.initial_password_hash[1]))
        => (result = "CommandError_hash" /\ Target \notin DOMAIN accounts)

\* C1 amended: with UserProfile available, a non-empty hash that is unusable or
\* names no configured hasher fails with the invalid-hash error and the user
\* table is what it was (the created row is rolled back); the empty string counts
\* as no hash: the call succeeds and the row gets the default password (or the
\* unusable one when that is asked for).
C1_InvalidHashRollsBack ==
    (UserProfile /\ SuppliesHashOnCreation) =>
        LET h == call.initial_password_hash[1]
        IN  /\ (Len(h) > 0 /\ ~(is_password_usable(h) /\ is_valid_django_hash(h)))
                => (result = "CommandError_hash" /\ accounts = pre)
            /\ Len(h) = 0
                => /\ result = "ok"
                   /\ Target \in DOMAIN accounts
                   /\ IF call.unusable_password
                      THEN ~is_password_usable(accounts[Target].password)
                      ELSE \E salt \in Randoms :
                               accounts[Target].password = make_password(DUMMY_PASSWORD, salt)

C1_Witness ==
    UserProfile /\ SuppliesHashOnCreation /\ result = "CommandError_hash"
        /\ Target \notin DOMAIN accounts

\* C2 as stated: a non-remove call on an existing username whose stored e-mail
\* differs case-insensitively from the supplied one always fails with the
\* e-mail-mismatch error and leaves the account as it was; a difference in
\* letter case alone does not fail.
C2_AsStated ==
    (NonRemove /\ Target \in DOMAIN pre) =>
        IF SameEmailIgnoringCase(pre[Target].email, call.email)
        THEN result # "CommandError_email"
        ELSE result = "CommandError_email" /\ accounts = pre

\* C2 amended: the same, for calls made with UserProfile available.
C2_EmailMismatchGuard ==
    (UserProfile /\ NonRemove /\ Target \in DOMAIN pre) =>
        IF SameEmailIgnoringCase(pre[Target].email, call.email)
        THEN result # "CommandError_email"
        ELSE result = "CommandError_email" /\ accounts = pre

C2_Witness ==
    UserProfile /\ NonRemove /\ Target \in DOMAIN pre
        /\ ~SameEmailIgnoringCase(pre[Target].email, call.email)
        /\ result = "CommandError_email"

\* C3: a non-remove call repeated with the same arguments after it succeeded
\* leaves the user table as the first call left it and assigns no attribute.
C3_Idempotent ==
    (NonRemove /\ firstResult # None /\ ~Raised(firstResult[1])) =>
        /\ accounts = pre
        /\ writes = {}
        /\ result = firstResult[1]

C3_Witness ==
    UserProfile /\ NonRemove /\ firstResult = Some("ok") /\ result = "ok"
        /\ (call.is_staff \/ call.is_superuser) /\ call.unusable_password

\* C4: after a successful non-remove call the account's groups are exactly the
\* existing groups named in the call, and the group directory is unchanged.
C4_GroupsReplaced ==
    (NonRemove /\ result = "ok") =>
        LET names == IF call.groups = None THEN {} ELSE call.groups[1]
        IN  /\ Target \in DOMAIN accounts
            /\ accounts[Target].groups = names \cap ExistingGroups
            /\ groupDir = ExistingGroups

C4_Witness ==
    NonRemove /\ result = "ok" /\ Target \in DOMAIN pre
        /\ pre[Target].groups = {"A", "B"}
        /\ call.groups = Some({"B", "C", "Z"})
        /\ accounts[Target].groups = {"B", "C"}

\* C5: with UserProfile available, a remove call on an absent username succeeds
\* and changes nothing; on a present one with a matching e-mail (ignoring case)
\* it deletes that account and succeeds; otherwise it fails with the
\* e-mail-mismatch error and changes nothing.  It never creates an account.
C5_Remove ==
    (UserProfile /\ Returned /\ call.is_remove) =>
        /\ DOMAIN accounts \subseteq DOMAIN pre
        /\ OthersUntouched
        /\ IF Target \notin DOMAIN pre
           THEN result = "ok" /\ accounts = pre
           ELSE IF SameEmailIgnoringCase(pre[Target].email, call.email)
           THEN result = "ok" /\ accounts = Without(pre, Target)
           ELSE result = "CommandError_email" /\ accounts = pre

C5_Witness ==
    UserProfile /\ Returned /\ call.is_remove /\ result = "ok"
        /\ Target \in DOMAIN pre /\ Target \notin DOMAIN accounts
        /\ pre[Target].email # call.email

DefaultCreation ==
    NonRemove /\ Target \notin DOMAIN pre
        /\ call.initial_password_hash = None /\ ~call.unusable_password

NewAccountAsRequested ==
    /\ result = "ok"
    /\ DOMAIN accounts = DOMAIN pre \cup {Target}
    /\ OthersUntouched
    /\ accounts[Target].email = call.email
    /\ is_password_usable(accounts[Target].password)
    /\ is_valid_django_hash(accounts[Target].password)
    /\ accounts[Target].is_staff = call.is_staff
    /\ accounts[Target].is_superuser = call.is_superuser
    /\ accounts[Target].groups =
           (IF call.groups = None THEN {} ELSE call.groups[1]) \cap ExistingGroups
    /\ accounts[Target].profile

\* C6 as stated: a non-remove call for an absent username, with no initial hash
\* and no unusable-password flag, succeeds and leaves exactly one new account as
\* requested: e-mail, usable password, flags, existing groups, profile.
C6_AsStated == DefaultCreation => NewAccountAsRequested

\* C6 amended: the same, for calls made with UserProfile available.
C6_CreatesAccount == (UserProfile /\ DefaultCreation) => NewAccountAsRequested

C6_Witness ==
    UserProfile /\ DefaultCreation /\ result = "ok" /\ Target \in DOMAIN accounts
        /\ call.is_staff /\ ~call.is_superuser /\ accounts[Target].groups = {"A", "B"}

\* C7: with UserProfile absent every call returns without raising and changes
\* nothing.
C7_NoProfileNoOp ==
    (~UserProfile /\ Returned) =>
        /\ result = "logged_error"
        /\ accounts = pre
        /\ writes = {}

C7_Witness ==
    ~UserProfile /\ Returned /\ call.is_remove /\ Target \in DOMAIN pre
        /\ SameEmailIgnoringCase(pre[Target].email, call.email)
        /\ Target \in DOMAIN accounts

\* C8: from the call that creates an account until the call that deletes it,
\* the stored e-mail is the e-mail given at creation, character for character.
C8_EmailNeverOverwritten ==
    \A u \in DOMAIN createdEmail :
        u \in DOMAIN accounts /\ accounts[u].email = createdEmail[u]

C8_Witness ==
    NonRemove /\ result = "ok" /\ Target \in DOMAIN pre
        /\ Target \in DOMAIN createdEmail
        /\ call.email # createdEmail[Target]
        /\ accounts[Target].email = createdEmail[Target]

\* C9: a successful non-remove call with the unusable-password flag leaves the
\* password unusable; no non-remove call on an account whose password is
\* unusable changes the password, so none makes it usable again.
C9_UnusableOneWay ==
    /\ (NonRemove /\ result = "ok" /\ call.unusable_password)
           => ~is_password_usable(accounts[Target].password)
    /\ (NonRemove /\ Target \in DOMAIN pre /\ ~is_password_usable(pre[Target].password))
           => (Target \in DOMAIN accounts
               /\ accounts[Target].password = pre[Target].password)

C9_Witness ==
    NonRemove /\ result = "ok" /\ call.unusable_password
        /\ firstResult = Some("ok")
        /\ Target \in DOMAIN pre /\ ~is_password_usable(pre[Target].password)
        /\ call.initial_password_hash = Some(GoodHash)

\* C10: the password given to an account created without an initial hash is
\* randomly generated, not a value fixed by the program.
C10_PasswordNotFixed ==
    (NonRemove /\ result = "ok" /\ Target \notin DOMAIN pre
        /\ ~Truthy(call.initial_password_hash) /\ ~call.unusable_password)
        => RawOf(accounts[Target].password) # DUMMY_PASSWORD

====
